---- MODULE Spec2Model ----
(***************************************************************************)
(* A model of GoL.c: Conway's Game of Life on a toroidal m x n world,      *)
(* computed by r*s POSIX threads.  Each thread owns one tile of the world, *)
(* computes the next generation of its tile from the buffer wp into the    *)
(* buffer twp, and meets the other threads in Barrier(); the last thread   *)
(* to arrive either sets break_flag (no live cell) or calls Pointer_swap.  *)
(*                                                                         *)
(* Granularity.  Everything between pthread_mutex_lock and the             *)
(* pthread_cond_wait / pthread_mutex_unlock of Barrier() runs under        *)
(* barrier_mutex and is one action.  Outside the mutex a thread takes one  *)
(* step per shared access group: Count_nbhrs (reads of *wp), the rule and  *)
(* the store into *twp, the load of live_count and the store of            *)
(* live_count (live_count++ is not atomic in C, so its load and store are  *)
(* separate steps).  pthread_cond_wait may return without a broadcast      *)
(* (POSIX allows spurious wakeups); that return is the action              *)
(* SpuriousWake.  The buffer w2 comes from malloc and is not initialised;  *)
(* its initial content is a nondeterministic choice.                       *)
(***************************************************************************)
EXTENDS Integers, Sequences, FiniteSets, TLC

VARIABLES
    r, s, m, n, max_gens,       \* command line (main, lines 95-99)
    w,                          \* the two malloc'ed buffers, w[1] = w1, w[2] = w2
    wp, twp,                    \* which buffer is current / next
    barrier_count, curr_gen, live_count, break_flag,
    signalled,                  \* ok_to_proceed: waiters a broadcast has released
    pc,                         \* per thread: position in Play_life / Barrier
    my_first_row, my_last_row, my_first_col, my_last_col,
    my_i, my_j, count,          \* per thread: locals i, j, count of Play_life
    reg,                        \* per thread: the value live_count++ has loaded
    out,                        \* what Print_world has written, in order
    live_written,               \* history: LIVE stores into *twp since the last reset
    releases,                   \* history: times the last arriver's branch has run
    spurious                    \* history: returns of pthread_cond_wait with no broadcast

cfg  == <<r, s, m, n, max_gens>>
tile == <<my_first_row, my_last_row, my_first_col, my_last_col>>
loc  == <<my_i, my_j, count, reg>>
glob == <<w, wp, twp, barrier_count, curr_gen, live_count, break_flag, signalled, out>>
hist == <<live_written, releases, spurious>>
vars == <<cfg, tile, loc, glob, hist, pc>>

LIVE == 1
DEAD == 0
LIVE_IO == "X"
DEAD_IO == " "

(* Bounds of the model. *)
MaxGens == 2
MaxThreads == 2
MaxRows == 4
MaxLive == 4
MaxSpurious == 1
MaxCells == 12
MaxTileDim == 6
MaxTileThreads == 6

thread_count == r * s
Ranks == 0 .. (thread_count - 1)
Cells(M, N) == 0 .. (M * N - 1)

(***************************************************************************)
(* Print_world: one character per cell, 'X' for LIVE and ' ' for anything  *)
(* else, and the title (the generation number that sprintf put in it).     *)
(***************************************************************************)
Print_world(title, g, M, N) ==
    [title |-> title,
     world |-> [c \in Cells(M, N) |-> IF g[c] = LIVE THEN LIVE_IO ELSE DEAD_IO]]

(***************************************************************************)
(* Count_nbhrs: sums the 3 x 3 block around (ci, cj) with wraparound and   *)
(* subtracts the cell itself.                                              *)
(***************************************************************************)
Count_nbhrs_noself(g, M, N, ci, cj) ==
    LET RECURSIVE Sum(_)
        Sum(k) == IF k = 9 THEN 0
                  ELSE LET i1 == ci - 1 + (k \div 3)
                           j1 == cj - 1 + (k % 3)
                           i2 == (i1 + M) % M
                           j2 == (j1 + N) % N
                       IN  g[i2 * N + j2] + Sum(k + 1)
    IN  Sum(0)

Count_nbhrs(g, M, N, ci, cj) ==
    LET RECURSIVE Sum(_)
        Sum(k) == IF k = 9 THEN 0
                  ELSE LET i1 == ci - 1 + (k \div 3)
                           j1 == cj - 1 + (k % 3)
                           i2 == (i1 + M) % M
                           j2 == (j1 + N) % N
                       IN  g[i2 * N + j2] + Sum(k + 1)
    IN  Sum(0) - g[ci * N + cj]

(* The rule of Play_life, lines 279-285: the value stored into twp[i*n+j]. *)
Rule_b2(cnt, cell) ==
    IF cnt < 2 \/ cnt > 3 THEN DEAD
    ELSE LIVE

Rule(cnt, cell) ==
    IF cnt < 2 \/ cnt > 3 THEN DEAD
    ELSE IF cnt = 2 THEN cell
    ELSE LIVE

(* The tile of a thread, Play_life lines 265-268. *)
Tile_first_row(rank) == (rank \div s) * (m \div r)
Tile_last_row(rank) == Tile_first_row(rank) + (m \div r)
Tile_first_col_byrows(rank) == (rank % r) * (n \div s)
Tile_first_col(rank) == (rank % s) * (n \div s)
Tile_last_col_tail(rank) == IF rank % s = s - 1 THEN n ELSE Tile_first_col(rank) + (n \div s)
Tile_last_col(rank) == Tile_first_col(rank) + (n \div s)

(* The loop condition of Play_life, line 270. *)
While_cond_le == curr_gen <= max_gens
While_cond == curr_gen < max_gens

(* The test of the last arriver, line 341. *)
Population_extinct_neg == live_count < 0
Population_extinct == live_count = 0

(***************************************************************************)
(* main, lines 95-122: the command line, the two buffers, generation 0 in  *)
(* w1 (Read_world or Gen_world store LIVE or DEAD in every cell), and the  *)
(* first Print_world.  No thread has started.                              *)
(***************************************************************************)
Setup(R, S, M, N, G, W0, W2) ==
    /\ r = R /\ s = S /\ m = M /\ n = N /\ max_gens = G
    /\ w = <<W0, W2>>
    /\ wp = 1 /\ twp = 2
    /\ barrier_count = 0 /\ curr_gen = 0 /\ live_count = 0 /\ break_flag = 0
    /\ signalled = {}
    /\ pc = [t \in 0 .. (R * S - 1) |-> "start"]
    /\ my_first_row = [t \in 0 .. (R * S - 1) |-> 0]
    /\ my_last_row = [t \in 0 .. (R * S - 1) |-> 0]
    /\ my_first_col = [t \in 0 .. (R * S - 1) |-> 0]
    /\ my_last_col = [t \in 0 .. (R * S - 1) |-> 0]
    /\ my_i = [t \in 0 .. (R * S - 1) |-> 0]
    /\ my_j = [t \in 0 .. (R * S - 1) |-> 0]
    /\ count = [t \in 0 .. (R * S - 1) |-> 0]
    /\ reg = [t \in 0 .. (R * S - 1) |-> 0]
    /\ out = <<Print_world(0, W0, M, N)>>
    /\ live_written = 0
    /\ releases = 0
    /\ spurious = 0

(* Worlds used as inputs. *)
AllWorlds(M, N) == [Cells(M, N) -> {DEAD, LIVE}]
PrefixWorld(M, N, k) == [c \in Cells(M, N) |-> IF c < k THEN LIVE ELSE DEAD]
FillWorld(M, N, v) == [c \in Cells(M, N) |-> v]

(***************************************************************************)
(* Play_life                                                               *)
(***************************************************************************)
(* Lines 265-268. *)
Start(t) ==
    /\ pc[t] = "start"
    /\ my_first_row' = [my_first_row EXCEPT ![t] = Tile_first_row(t)]
    /\ my_last_row' = [my_last_row EXCEPT ![t] = Tile_last_row(t)]
    /\ my_first_col' = [my_first_col EXCEPT ![t] = Tile_first_col(t)]
    /\ my_last_col' = [my_last_col EXCEPT ![t] = Tile_last_col(t)]
    /\ pc' = [pc EXCEPT ![t] = "while"]
    /\ UNCHANGED <<cfg, loc, glob, hist>>

(* Lines 270-272: the test of the while loop and the entry of the for loops. *)
While(t) ==
    /\ pc[t] = "while"
    /\ IF While_cond
       THEN /\ my_i' = [my_i EXCEPT ![t] = my_first_row[t]]
            /\ my_j' = [my_j EXCEPT ![t] = my_first_col[t]]
            /\ pc' = [pc EXCEPT ![t] =
                        IF /\ my_first_row[t] < my_last_row[t]
                           /\ my_first_col[t] < my_last_col[t]
                        THEN "count" ELSE "barrier"]
       ELSE /\ pc' = [pc EXCEPT ![t] = "done"]
            /\ UNCHANGED <<my_i, my_j>>
    /\ UNCHANGED <<cfg, tile, count, reg, glob, hist>>

(* Line 273. *)
Count(t) ==
    /\ pc[t] = "count"
    /\ count' = [count EXCEPT ![t] = Count_nbhrs(w[wp], m, n, my_i[t], my_j[t])]
    /\ pc' = [pc EXCEPT ![t] = "rule"]
    /\ UNCHANGED <<cfg, tile, my_i, my_j, reg, glob, hist>>

(* j++ and i++ of the for loops, lines 271-272, after the cell (my_i, my_j). *)
AfterCell(t) ==
    IF my_j[t] + 1 < my_last_col[t]
    THEN <<my_i[t], my_j[t] + 1, "count">>
    ELSE IF my_i[t] + 1 < my_last_row[t]
         THEN <<my_i[t] + 1, my_first_col[t], "count">>
         ELSE <<my_i[t] + 1, my_j[t] + 1, "barrier">>

(* Lines 279-286: the store into twp[i*n+j] and the test of what was stored. *)
Apply_stride_m(t) ==
    /\ pc[t] = "rule"
    /\ LET idx == my_i[t] * m + my_j[t]
           val == Rule(count[t], w[wp][my_i[t] * n + my_j[t]])
       IN  /\ w' = [w EXCEPT ![twp][idx] = val]
           /\ IF val = LIVE
              THEN /\ pc' = [pc EXCEPT ![t] = "lc_load"]
                   /\ live_written' = live_written + 1
                   /\ UNCHANGED <<my_i, my_j>>
              ELSE /\ my_i' = [my_i EXCEPT ![t] = AfterCell(t)[1]]
                   /\ my_j' = [my_j EXCEPT ![t] = AfterCell(t)[2]]
                   /\ pc' = [pc EXCEPT ![t] = AfterCell(t)[3]]
                   /\ UNCHANGED live_written
    /\ UNCHANGED <<cfg, tile, count, reg, wp, twp, barrier_count, curr_gen,
                   live_count, break_flag, signalled, out, releases, spurious>>

Apply(t) ==
    /\ pc[t] = "rule"
    /\ LET idx == my_i[t] * n + my_j[t]
           val == Rule(count[t], w[wp][idx])
       IN  /\ w' = [w EXCEPT ![twp][idx] = val]
           /\ IF val = LIVE
              THEN /\ pc' = [pc EXCEPT ![t] = "lc_load"]
                   /\ live_written' = live_written + 1
                   /\ UNCHANGED <<my_i, my_j>>
              ELSE /\ my_i' = [my_i EXCEPT ![t] = AfterCell(t)[1]]
                   /\ my_j' = [my_j EXCEPT ![t] = AfterCell(t)[2]]
                   /\ pc' = [pc EXCEPT ![t] = AfterCell(t)[3]]
                   /\ UNCHANGED live_written
    /\ UNCHANGED <<cfg, tile, count, reg, wp, twp, barrier_count, curr_gen,
                   live_count, break_flag, signalled, out, releases, spurious>>

(* Line 287, live_count++: the load. *)
LcLoad(t) ==
    /\ pc[t] = "lc_load"
    /\ reg' = [reg EXCEPT ![t] = live_count]
    /\ pc' = [pc EXCEPT ![t] = "lc_store"]
    /\ UNCHANGED <<cfg, tile, my_i, my_j, count, glob, hist>>

(* Line 287, live_count++: the store. *)
LcStore(t) ==
    /\ pc[t] = "lc_store"
    /\ live_count' = reg[t] + 1
    /\ my_i' = [my_i EXCEPT ![t] = AfterCell(t)[1]]
    /\ my_j' = [my_j EXCEPT ![t] = AfterCell(t)[2]]
    /\ pc' = [pc EXCEPT ![t] = AfterCell(t)[3]]
    /\ UNCHANGED <<cfg, tile, count, reg, w, wp, twp, barrier_count, curr_gen,
                   break_flag, signalled, out, hist>>

(***************************************************************************)
(* Barrier and Pointer_swap                                                *)
(***************************************************************************)
(* Lines 362-372. *)
Pointer_swap_by2 ==
    /\ wp' = twp
    /\ twp' = wp
    /\ curr_gen' = curr_gen + 2
    /\ out' = Append(out, Print_world(curr_gen + 1, w[twp], m, n))

Pointer_swap ==
    /\ wp' = twp
    /\ twp' = wp
    /\ curr_gen' = curr_gen + 1
    /\ out' = Append(out, Print_world(curr_gen + 1, w[twp], m, n))

(* Lines 338-348, 352: the arrival that makes barrier_count = thread_count. *)
BarrierLast(t) ==
    /\ pc[t] = "barrier"
    /\ barrier_count + 1 = thread_count
    /\ IF Population_extinct
       THEN /\ break_flag' = 1
            /\ UNCHANGED <<wp, twp, curr_gen, out>>
       ELSE /\ Pointer_swap
            /\ UNCHANGED break_flag
    /\ barrier_count' = 0
    /\ live_count' = 0
    /\ signalled' = {v \in Ranks : pc[v] = "wait"}
    /\ pc' = [pc EXCEPT ![t] = "check"]
    /\ live_written' = 0
    /\ releases' = releases + 1
    /\ UNCHANGED <<cfg, tile, loc, w, spurious>>

(* Lines 338-340, 350: any other arrival; the thread waits on ok_to_proceed. *)
BarrierWait(t) ==
    /\ pc[t] = "barrier"
    /\ barrier_count + 1 # thread_count
    /\ barrier_count' = barrier_count + 1
    /\ pc' = [pc EXCEPT ![t] = "wait"]
    /\ UNCHANGED <<cfg, tile, loc, w, wp, twp, curr_gen, live_count, break_flag,
                   signalled, out, hist>>

(* Lines 350-352: pthread_cond_wait returns 0 after the broadcast. *)
Wake(t) ==
    /\ pc[t] = "wait"
    /\ t \in signalled
    /\ signalled' = signalled \ {t}
    /\ pc' = [pc EXCEPT ![t] = "check"]
    /\ UNCHANGED <<cfg, tile, loc, w, wp, twp, barrier_count, curr_gen, live_count,
                   break_flag, out, hist>>

(* Lines 350-352: pthread_cond_wait returns 0 with no broadcast; the loop  *)
(* of line 350 tests only the return value, so the thread leaves Barrier.  *)
SpuriousWake(t) ==
    /\ pc[t] = "wait"
    /\ t \notin signalled
    /\ spurious < MaxSpurious
    /\ spurious' = spurious + 1
    /\ pc' = [pc EXCEPT ![t] = "check"]
    /\ UNCHANGED <<cfg, tile, loc, glob, live_written, releases>>

(* Lines 293-295. *)
Check(t) ==
    /\ pc[t] = "check"
    /\ pc' = [pc EXCEPT ![t] = IF break_flag = 1 THEN "done" ELSE "while"]
    /\ UNCHANGED <<cfg, tile, loc, glob, hist>>

(***************************************************************************)
(* Specifications                                                          *)
(***************************************************************************)
MinDim == 3

(* Thread grids of at most k threads with a non-empty tile for each thread. *)
Shapes(M, N, k) ==
    {sh \in (1 .. M) \X (1 .. N) : sh[1] * sh[2] <= k}

Divisible == m % r = 0 /\ n % s = 0

(* The program on worlds of MinDim columns and up to MaxRows rows, every   *)
(* thread grid of at most MaxThreads threads, every generation cap up to   *)
(* MaxGens, generation 0 with its first k cells alive, k up to MaxLive.    *)
Init ==
    \E M \in MinDim .. MaxRows :
        \E sh \in Shapes(M, MinDim, MaxThreads), k \in 0 .. MaxLive,
           G \in 0 .. MaxGens, v \in {DEAD, LIVE} :
            Setup(sh[1], sh[2], M, MinDim, G, PrefixWorld(M, MinDim, k),
                  FillWorld(M, MinDim, v))

Step(t) ==
    \/ Start(t)
    \/ While(t)
    \/ Count(t)
    \/ Apply(t)
    \/ LcLoad(t)
    \/ LcStore(t)
    \/ BarrierLast(t)
    \/ BarrierWait(t)
    \/ Wake(t)
    \/ SpuriousWake(t)
    \/ Check(t)

Next == \E t \in Ranks : Step(t)

Spec == Init /\ [][Next]_vars

(* The same program when pthread_cond_wait returns only after a broadcast. *)
NextNoSpurious ==
    \E t \in Ranks :
        \/ Start(t)
        \/ While(t)
        \/ Count(t)
        \/ Apply(t)
        \/ LcLoad(t)
        \/ LcStore(t)
        \/ BarrierLast(t)
        \/ BarrierWait(t)
        \/ Wake(t)
        \/ Check(t)

SpecNoSpurious == Init /\ [][NextNoSpurious]_vars

(* One thread, one generation, every world of at most MaxCells cells: the  *)
(* inputs of Count_nbhrs and of the rule.  With thread_count = 1 no thread *)
(* ever waits, so the actions left out are never enabled.                  *)
InitSeq ==
    \E M \in MinDim .. MaxCells, N \in MinDim .. MaxCells :
        /\ M * N <= MaxCells
        /\ \E W0 \in AllWorlds(M, N), v \in {DEAD, LIVE} :
               Setup(1, 1, M, N, 1, W0, FillWorld(M, N, v))

NextSeq ==
    \E t \in Ranks :
        \/ Start(t)
        \/ While(t)
        \/ Count(t)
        \/ Apply(t)
        \/ LcLoad(t)
        \/ LcStore(t)
        \/ BarrierLast(t)
        \/ Check(t)

SpecSeq == InitSeq /\ [][NextSeq]_vars

(* Every world size up to MaxTileDim and every thread grid of at most      *)
(* MaxTileThreads threads, generation cap 0: the threads compute their     *)
(* tiles and return.                                                       *)
InitTiles ==
    \E M \in MinDim .. MaxTileDim, N \in MinDim .. MaxTileDim :
        \E sh \in Shapes(M, N, MaxTileThreads) :
            Setup(sh[1], sh[2], M, N, 0, FillWorld(M, N, DEAD), FillWorld(M, N, DEAD))

NextTiles ==
    \E t \in Ranks :
        \/ Start(t)
        \/ While(t)

SpecTiles == InitTiles /\ [][NextTiles]_vars

(* A blinker: three live cells in row 2, columns 1 to 3, and the           *)
(* perpendicular one, three live cells in column 2, rows 1 to 3.           *)
BlinkerDim == 5
BlinkerRow(M, N) ==
    [c \in Cells(M, N) |-> IF c \in {2 * N + 1, 2 * N + 2, 2 * N + 3} THEN LIVE ELSE DEAD]
BlinkerCol(M, N) ==
    [c \in Cells(M, N) |-> IF c \in {N + 2, 2 * N + 2, 3 * N + 2} THEN LIVE ELSE DEAD]

(* The program on a BlinkerDim x BlinkerDim world holding one blinker,     *)
(* every thread grid of at most MaxThreads threads, every cap up to        *)
(* MaxGens.                                                                *)
InitBlinker ==
    \E sh \in Shapes(BlinkerDim, BlinkerDim, MaxThreads), G \in 0 .. MaxGens,
       v \in {DEAD, LIVE} :
        Setup(sh[1], sh[2], BlinkerDim, BlinkerDim, G,
              BlinkerRow(BlinkerDim, BlinkerDim), FillWorld(BlinkerDim, BlinkerDim, v))

SpecBlinker == InitBlinker /\ [][Next]_vars

(* Command lines that main accepts (lines 93-101 test only argc): worlds   *)
(* of MinDim - 1 or MinDim rows, and thread grids that may have no thread. *)
InitStartup ==
    \E M \in (MinDim - 1) .. MinDim :
        \E sh \in Shapes(M, MinDim, MaxThreads) \cup {<<0, 1>>}, k \in 0 .. MaxLive,
           v \in {DEAD, LIVE} :
            Setup(sh[1], sh[2], M, MinDim, 1, PrefixWorld(M, MinDim, k),
                  FillWorld(M, MinDim, v))

SpecStartup == InitStartup /\ [][Next]_vars

(***************************************************************************)
(* Reference definitions, independent of Count_nbhrs and Rule.             *)
(***************************************************************************)
(* The cells at the eight toroidal offsets around cell c. *)
RefNbrs(M, N, c) ==
    {(((c \div N) + di + M) % M) * N + (((c % N) + dj + N) % N) :
        di \in -1 .. 1, dj \in -1 .. 1} \ {c}

RefLiveNbrs(g, M, N, c) == Cardinality({d \in RefNbrs(M, N, c) : g[d] = LIVE})

(* One generation of Conway's rules (header comment, lines 13-22). *)
RefStep(g, M, N) ==
    [c \in Cells(M, N) |->
        LET k == RefLiveNbrs(g, M, N, c)
        IN  IF g[c] = LIVE
            THEN (IF k = 2 \/ k = 3 THEN LIVE ELSE DEAD)
            ELSE (IF k = 3 THEN LIVE ELSE DEAD)]

RECURSIVE RefGen(_, _, _, _)
RefGen(g, M, N, k) == IF k = 0 THEN g ELSE RefStep(RefGen(g, M, N, k - 1), M, N)

(* Generation 0, read back from the first Print_world. *)
World0 == [c \in Cells(m, n) |-> IF out[1].world[c] = LIVE_IO THEN LIVE ELSE DEAD]

Computing(t) == pc[t] \in {"count", "rule", "lc_load", "lc_store"}
AllDone == \A t \in Ranks : pc[t] = "done"
InTile(t, a, b) ==
    /\ my_first_row[t] <= a /\ a < my_last_row[t]
    /\ my_first_col[t] <= b /\ b < my_last_col[t]

(***************************************************************************)
(* Claims                                                                  *)
(***************************************************************************)
(* C1: the release action (flag or swap) runs in a step of exactly one     *)
(* thread, the one whose arrival completes the rendezvous, and only in a   *)
(* state where no other thread is inside the for loops of Play_life,       *)
(* reading the current buffer or writing the next one.                     *)
C1_ReleaseWhileOthersQuiet ==
    [][releases' # releases =>
        /\ Cardinality({t \in Ranks : pc[t] = "barrier" /\ pc'[t] = "check"}) = 1
        /\ \A v \in Ranks : ~Computing(v)]_vars

(* C2: for an evenly divided world, the current buffer is always the       *)
(* curr_gen-fold reference step of generation 0, and the k-th world        *)
(* printed is the (k-1)-fold reference step of generation 0.               *)
C2_AgreesWithReference ==
    Divisible =>
        /\ w[wp] = RefGen(World0, m, n, curr_gen)
        /\ \A k \in 1 .. Len(out) :
               out[k] = Print_world(k - 1, RefGen(World0, m, n, k - 1), m, n)

(* C3: no thread is left blocked in pthread_cond_wait, with no broadcast   *)
(* pending for it, once another thread has returned from Play_life.        *)
C3_NoWaiterLeftBehind ==
    \A t \in Ranks :
        (pc[t] = "wait" /\ t \notin signalled) => \A v \in Ranks : pc[v] # "done"

(* C4: when the last arriver reads live_count, it equals the number of     *)
(* LIVE cells stored into the next buffer since live_count was reset.      *)
C4_LiveCountExact ==
    [][releases' # releases => live_count = live_written]_vars

(* C5: a release with live_count = 0 sets break_flag and neither swaps the *)
(* buffers, nor changes a cell, nor increments curr_gen, nor prints.       *)
C5_ExtinctReleaseFrame ==
    [][(releases' # releases /\ live_count = 0) =>
        /\ break_flag' = 1
        /\ UNCHANGED <<wp, twp, w, curr_gen, out>>]_vars

C5_Witness ==
    /\ break_flag = 1
    /\ curr_gen >= 1
    /\ thread_count > 1

(* C6: once break_flag is set it stays set, and from then on no thread     *)
(* passes the while test into the for loops to compute another generation, *)
(* the buffers are not swapped, curr_gen does not change and nothing is    *)
(* printed.                                                                *)
C6_NothingAfterExtinction ==
    [][break_flag = 1 =>
        /\ break_flag' = 1
        /\ UNCHANGED <<wp, twp, curr_gen, out>>
        /\ \A t \in Ranks : ~(pc[t] = "while" /\ Computing(t)')]_vars

(* C7: the value stored into next(i, j) is DEAD when the neighbour count   *)
(* is below 2 or above 3, the current value of the cell when the count is  *)
(* 2, and LIVE when the count is 3.                                        *)
C7_RuleTable ==
    [][\A t \in Ranks :
        (pc[t] = "rule" /\ pc'[t] # "rule") =>
            LET idx == my_i[t] * n + my_j[t]
                val == w'[twp][idx]
            IN  /\ (count[t] < 2 \/ count[t] > 3) => val = DEAD
                /\ count[t] = 2 => val = w[wp][idx]
                /\ count[t] = 3 => val = LIVE]_vars

C7_Witness ==
    \E t \in Ranks :
        /\ pc[t] = "lc_load"
        /\ count[t] = 2
        /\ w[wp][my_i[t] * n + my_j[t]] = LIVE
        /\ w[twp][my_i[t] * n + my_j[t]] = LIVE

(* C8: the count returned for cell (i, j) is the number of live cells      *)
(* among its 8 distinct toroidal neighbours, the cell itself excluded.     *)
C8_CountIsEightNeighbours ==
    \A t \in Ranks :
        pc[t] = "rule" =>
            LET c == my_i[t] * n + my_j[t]
            IN  /\ Cardinality(RefNbrs(m, n, c)) = 8
                /\ c \notin RefNbrs(m, n, c)
                /\ count[t] = RefLiveNbrs(w[wp], m, n, c)

C8_Witness ==
    \E t \in Ranks :
        /\ pc[t] = "rule"
        /\ m = 3 /\ n = 3
        /\ my_i[t] = 2 /\ my_j[t] = 2
        /\ \A c \in Cells(m, n) : w[wp][c] = LIVE
        /\ count[t] = 8

(* C9: when r divides m and s divides n, once every thread has computed    *)
(* its tile, every cell of the world lies in the tile of exactly one       *)
(* thread.                                                                 *)
C9_TilesPartition ==
    (Divisible /\ \A t \in Ranks : pc[t] # "start") =>
        \A a \in 0 .. (m - 1), b \in 0 .. (n - 1) :
            Cardinality({t \in Ranks : InTile(t, a, b)}) = 1

C9_Witness ==
    /\ Divisible
    /\ r > 1 /\ s > 1 /\ r # s
    /\ \A t \in Ranks : pc[t] # "start"

(* C10: with max_gens = 0 no thread computes a cell or enters the barrier, *)
(* the current buffer is generation 0, curr_gen is 0 and break_flag is     *)
(* not set.                                                                *)
C10_ZeroGenerations ==
    max_gens = 0 =>
        /\ \A t \in Ranks : pc[t] \in {"start", "while", "done"}
        /\ wp = 1 /\ w[wp] = World0
        /\ curr_gen = 0 /\ break_flag = 0
        /\ barrier_count = 0 /\ releases = 0
        /\ Len(out) = 1

C10_Witness ==
    /\ max_gens = 0
    /\ thread_count > 1
    /\ AllDone

(* C11: from an all-dead generation 0 with a cap of at least 1, the first   *)
(* rendezvous sets break_flag, curr_gen stays 0, the current buffer stays  *)
(* all-dead, nothing more is printed, and every thread terminates: a       *)
(* thread returns from Play_life only after the flag is set, and none is   *)
(* then left blocked in the barrier with no broadcast pending for it.      *)
C11_AllDeadEndsAtGenerationZero ==
    (max_gens >= 1 /\ \A c \in Cells(m, n) : World0[c] = DEAD) =>
        /\ curr_gen = 0 /\ wp = 1 /\ Len(out) = 1
        /\ \A c \in Cells(m, n) : w[wp][c] = DEAD
        /\ releases >= 1 => (break_flag = 1 /\ releases = 1)
        /\ (\E v \in Ranks : pc[v] = "done") =>
               /\ break_flag = 1
               /\ \A t \in Ranks : pc[t] = "wait" => t \in signalled

(* The cells that lie in the tile of some thread. *)
Covered(c) ==
    \E t \in Ranks :
        /\ Tile_first_row(t) <= c \div n /\ c \div n < Tile_last_row(t)
        /\ Tile_first_col(t) <= c % n /\ c % n < Tile_last_col(t)

AgreeOnTiles(g, h) == \A c \in Cells(m, n) : Covered(c) => g[c] = h[c]

(* C12: on the 5 x 5 world holding a blinker, for every thread grid and    *)
(* interleaving, generation 1 is the perpendicular blinker and generation  *)
(* 2 is generation 0 again, in the current buffer and in the output, and   *)
(* break_flag is never set.  Cells outside every tile (a thread grid that  *)
(* does not divide the world) are not compared.                            *)
C12_BlinkerOscillates ==
    LET Gen(k) == IF k % 2 = 0 THEN BlinkerRow(m, n) ELSE BlinkerCol(m, n)
    IN  /\ break_flag = 0
        /\ curr_gen <= 2 => AgreeOnTiles(w[wp], Gen(curr_gen))
        /\ \A k \in 1 .. Len(out) :
               /\ out[k].title = k - 1
               /\ AgreeOnTiles(out[k].world, Print_world(k - 1, Gen(k - 1), m, n).world)

(* C13: with a thread grid of no thread, or a world of fewer than MinDim    *)
(* rows or columns, the run stops at startup: no thread ever runs a        *)
(* statement of Play_life, so no cell is computed.                         *)
ConfigError == r * s <= 0 \/ m < MinDim \/ n < MinDim

C13_ConfigErrorsStopAtStartup ==
    ConfigError => \A t \in Ranks : pc[t] = "start"

(* C14: when every thread has returned from Play_life, either break_flag   *)
(* is set and curr_gen is below the cap, or break_flag is not set and      *)
(* curr_gen equals the cap; exactly one of the two.                        *)
C14_TerminationPathsDistinct ==
    AllDone =>
        /\ (break_flag = 1 /\ curr_gen < max_gens)
               \/ (break_flag = 0 /\ curr_gen = max_gens)
        /\ ~((break_flag = 1 /\ curr_gen < max_gens)
               /\ (break_flag = 0 /\ curr_gen = max_gens))

C14_Witness ==
    /\ AllDone
    /\ thread_count > 1
    /\ break_flag = 1
    /\ curr_gen = 1 /\ max_gens = 2

(* C15: a thread blocked in the pthread_cond_wait of Barrier returns from  *)
(* it only after the last arriver of its rendezvous has broadcast, that    *)
(* is, only when it is one of the threads the broadcast signalled; a       *)
(* wakeup without a broadcast leaves it waiting.                           *)
C15_LeavesWaitOnlyOnBroadcast ==
    [][\A t \in Ranks :
          (pc[t] = "wait" /\ pc'[t] # "wait") => t \in signalled]_vars

(* C16: the threads released from one rendezvous all read the same value  *)
(* of break_flag after Barrier: the flag is written only by a last         *)
(* arriver, at a release, and it does not change while a thread that an    *)
(* earlier broadcast released is still on its way out of Barrier (it       *)
(* would read another value than the threads released with it, which have  *)
(* read the flag and gone through the loop again).                         *)
C16_FlagStableUntilAllHaveRead ==
    [][break_flag' # break_flag =>
          /\ releases' = releases + 1
          /\ \A t \in Ranks : ~(pc[t] = "wait" /\ t \in signalled)]_vars

(* C17: curr_gen is 0 at the start, changes only at a release of the      *)
(* barrier, by exactly +1 and together with a swap of wp and twp, so that  *)
(* it equals the number of swaps so far (each swap prints one frame after  *)
(* the frame of generation 0), and 0 <= curr_gen <= max_gens in every      *)
(* reachable state.                                                        *)
C17_GenerationCounter ==
    /\ curr_gen = 0
    /\ [](/\ 0 <= curr_gen /\ curr_gen <= max_gens
          /\ Len(out) = curr_gen + 1
          /\ wp = 1 + (curr_gen % 2) /\ twp = 2 - (curr_gen % 2))
    /\ [][/\ curr_gen' # curr_gen =>
                /\ curr_gen' = curr_gen + 1
                /\ releases' = releases + 1
                /\ wp' = twp /\ twp' = wp
          /\ wp' # wp => curr_gen' = curr_gen + 1]_vars

C17_Witness ==
    /\ thread_count > 1
    /\ max_gens = 2
    /\ curr_gen = max_gens
    /\ spurious > 0
    /\ \E t \in Ranks : pc[t] = "wait" /\ t \notin signalled

(* The threads blocked in Barrier that no broadcast has released yet. *)
Arrived == {t \in Ranks : pc[t] = "wait" /\ t \notin signalled}

(* C18: the barrier can be used again for the next generation: the release *)
(* sets barrier_count to 0 before any waiting thread returns, barrier_count*)
(* stays within 0 .. thread_count - 1, every thread blocked for the        *)
(* current rendezvous is counted (none is lost), and a release happens     *)
(* only when the other thread_count - 1 threads have each arrived for this *)
(* rendezvous (none is premature).                                         *)
C18_BarrierReusable ==
    /\ [](/\ 0 <= barrier_count /\ barrier_count < thread_count
          /\ Cardinality(Arrived) <= barrier_count)
    /\ [][releases' = releases + 1 =>
              /\ barrier_count' = 0
              /\ \A t \in Ranks : pc[t] = "wait" => pc'[t] = "wait"
              /\ Cardinality(Arrived) = thread_count - 1]_vars

(* Cell c lies in the tile that lines 265-268 give to thread t. *)
OwnTile(t, c) ==
    /\ Tile_first_row(t) <= c \div n /\ c \div n < Tile_last_row(t)
    /\ Tile_first_col(t) <= c % n /\ c % n < Tile_last_col(t)

(* C19: a step that changes a cell of a world buffer is the store of one   *)
(* thread t on line 279-285; the cell is in the buffer twp, never in wp,   *)
(* it lies inside the tile of t and inside the tile of no other thread, so *)
(* no cell is ever written by two threads.                                 *)
C19_WritesOnlyOwnTileOfNext ==
    [][\A b \in {1, 2} : \A c \in Cells(m, n) :
          w'[b][c] # w[b][c] =>
              /\ b = twp /\ b # wp
              /\ \E t \in Ranks :
                    /\ pc[t] = "rule" /\ pc'[t] # "rule"
                    /\ OwnTile(t, c)
                    /\ \A v \in Ranks \ {t} : ~OwnTile(v, c)]_vars

C19_Witness ==
    /\ curr_gen = 1
    /\ \E t, v \in Ranks :
          /\ t # v
          /\ pc[t] = "lc_load" /\ pc[v] = "lc_load"
          /\ w[twp][my_i[t] * n + my_j[t]] = LIVE
          /\ w[twp][my_i[v] * n + my_j[v]] = LIVE

(* The rows and columns left over when r does not divide m or s does not   *)
(* divide n.                                                               *)
Remainder(c) == c \div n >= r * (m \div r) \/ c % n >= s * (n \div s)

(* C20: a cell in a row of index >= r*(m/r) or a column of index >=        *)
(* s*(n/s) is in the tile of no thread, no thread ever visits it in its    *)
(* loops (so it never adds to live_count), and no step changes it in       *)
(* either buffer.                                                          *)
C20_RemainderUntouched ==
    /\ [](\A c \in Cells(m, n) : Remainder(c) =>
             \A t \in Ranks :
                 /\ ~OwnTile(t, c)
                 /\ pc[t] # "start" => ~InTile(t, c \div n, c % n)
                 /\ Computing(t) => my_i[t] * n + my_j[t] # c)
    /\ [][\A b \in {1, 2} : \A c \in Cells(m, n) :
              Remainder(c) => w'[b][c] = w[b][c]]_vars

C20_Witness ==
    /\ ~Divisible
    /\ curr_gen = 1
    /\ \E t \in Ranks : pc[t] = "wait"
    /\ \E c \in Cells(m, n) :
          Remainder(c) /\ World0[c] = LIVE /\ w[wp][c] = DEAD

====
